---- MODULE Spec2Model ----
(***************************************************************************)
(* Retrieval pipeline of the RAG chatbot: TextProcessor (chunking, token   *)
(* counting, token-budget truncation) and RetrievalService (add_document,  *)
(* retrieve_relevant_context, get_context_string) over MongoDB and Qdrant. *)
(* Text is a sequence of one-character strings, so that str.split, " ".join *)
(* and the tokenizer's encode/decode are computed, not assumed.            *)
(***************************************************************************)
EXTENDS Integers, Sequences, FiniteSets, TLC

VARIABLES
  settings,       \* config.settings.settings: the configuration in force
  pc, args, ret,  \* a direct call of a TextProcessor method: position, arguments, result
  prev,           \* the result of the call before it
  mongo_docs,     \* MongoDB collection "documents"
  mongo_sessions, \* MongoDB collection "chat_sessions"
  qdrant_points,  \* the Qdrant collection
  embed_calls,    \* number of requests made to the embedding service
  reqs,           \* the RetrievalService requests in flight, each with its position
  next_uuid       \* uuid.uuid4(): the next unused identifier

call_vars == <<pc, args, ret, prev>>
sys_vars == <<mongo_docs, mongo_sessions, qdrant_points, embed_calls, reqs, next_uuid>>
vars == <<settings, pc, args, ret, prev, mongo_docs, mongo_sessions, qdrant_points,
          embed_calls, reqs, next_uuid>>

(* ---------------------------------------------------------------- bounds *)
MaxTextLen == 6
MaxChunkArg == 3
MaxTokTextLen == 4
MaxTokens == 3
MaxReqs == 2

(* ------------------------------------------------ configuration defaults *)
CHUNK_SIZE == 500
CHUNK_OVERLAP == 50
MAX_CONTEXT_LENGTH == 3000
TOP_K_RESULTS == 5

Settings(cs, ov) ==
  [CHUNK_SIZE |-> cs, CHUNK_OVERLAP |-> ov,
   MAX_CONTEXT_LENGTH |-> MAX_CONTEXT_LENGTH, TOP_K_RESULTS |-> TOP_K_RESULTS]

\* The defaults, and environment overrides of the two chunking options.
SettingsChoices ==
  { Settings(CHUNK_SIZE, CHUNK_OVERLAP), Settings(3, 0), Settings(2, 1),
    Settings(2, 2), Settings(1, 2) }

(* --------------------------------------------------------- Python values *)
\* An optional argument: None, or a supplied value.
None == <<>>
Some(v) == <<v>>

\* `x or default` on an optional integer: None and 0 are both falsy.
PyOr(x, default) == IF x # None /\ x[1] # 0 THEN x[1] ELSE default

Min(a, b) == IF a < b THEN a ELSE b
Max(a, b) == IF a > b THEN a ELSE b

\* ceil(a / b) for a >= 0, b > 0.
CeilDiv(a, b) == (a + b - 1) \div b

\* A slice bound as Python normalises it against a sequence of length n.
PySliceBound(k, n) == IF k < 0 THEN Max(n + k, 0) ELSE Min(k, n)

\* s[i:j]
PySlice(s, i, j) ==
  SubSeq(s, PySliceBound(i, Len(s)) + 1, PySliceBound(j, Len(s)))

\* range(0, stop, step) for step # 0, as the sequence of its values.
PyRange(stop, step) ==
  LET cnt == IF step > 0 /\ stop > 0 THEN CeilDiv(stop, step)
             ELSE IF step < 0 /\ stop < 0 THEN CeilDiv(0 - stop, 0 - step)
             ELSE 0
  IN  [k \in 1..cnt |-> (k - 1) * step]

(* ------------------------------------------------------------------ text *)
Whitespace == {" "}
Letters == {"a", "b"}

RECURSIVE SplitFrom(_, _, _)
SplitFrom(text, i, cur) ==
  IF i > Len(text)
    THEN (IF cur = <<>> THEN <<>> ELSE <<cur>>)
    ELSE IF text[i] \in Whitespace
      THEN (IF cur = <<>> THEN <<>> ELSE <<cur>>) \o SplitFrom(text, i + 1, <<>>)
      ELSE SplitFrom(text, i + 1, Append(cur, text[i]))

\* text.split(): the maximal runs of non-whitespace characters.
Split(text) == SplitFrom(text, 1, <<>>)

RECURSIVE Join(_, _)
\* sep.join(words)
Join(sep, words) ==
  IF words = <<>> THEN <<>>
  ELSE IF Len(words) = 1 THEN words[1]
  ELSE words[1] \o sep \o Join(sep, Tail(words))

RECURSIVE SeqsUpTo(_, _)
\* All sequences over S of length at most n.
SeqsUpTo(S, n) ==
  IF n = 0 THEN {<<>>}
  ELSE LET shorter == SeqsUpTo(S, n - 1)
       IN  shorter \cup {Append(s, c) : s \in {t \in shorter : Len(t) = n - 1}, c \in S}

(* ------------------------------------------------------------- chunk_text *)
Ok(v) == [status |-> "ok", value |-> v]
Raise(e) == [status |-> e]

RECURSIVE ChunkLoop(_, _, _, _)
ChunkLoop(words, idxs, k, chunk_size) ==
  IF k > Len(idxs) THEN <<>>
  ELSE LET chunk == Join(<<" ">>, PySlice(words, idxs[k], idxs[k] + chunk_size))
       IN  (IF chunk # <<>> THEN <<chunk>> ELSE <<>>)
             \o ChunkLoop(words, idxs, k + 1, chunk_size)

chunk_text(text, chunk_size_arg, overlap_arg) ==
  LET chunk_size == PyOr(chunk_size_arg, settings.CHUNK_SIZE)
      overlap == PyOr(overlap_arg, settings.CHUNK_OVERLAP)
      words == Split(text)
      step == chunk_size - overlap
  IN  IF step = 0 THEN Raise("ValueError")   \* range() arg 3 must not be zero
      ELSE Ok(ChunkLoop(words, PyRange(Len(words), step), 1, chunk_size))

(* ------------------------------------------------------------- tokenizer *)
\* The encoding is a byte-level BPE: text is encoded to UTF-8 bytes, adjacent
\* byte strings are merged in rank order, and a token is a byte string that need
\* not end on a character boundary. Characters: "a", " " (one byte each), "EUR"
\* (U+20AC) and "INR" (U+20B9), three bytes each with the first two in common,
\* "FFFD" (U+FFFD, the replacement character) and the line feed "\n".
TokChars == {"a", " ", "EUR", "INR", "FFFD"}

UTF8(c) ==
  CASE c = "a" -> <<"61">>
    [] c = "b" -> <<"62">>
    [] c = " " -> <<"20">>
    [] c = "EUR" -> <<"E2", "82", "AC">>
    [] c = "INR" -> <<"E2", "82", "B9">>
    [] c = "FFFD" -> <<"EF", "BF", "BD">>
    [] c = "\n" -> <<"0A">>

RECURSIVE TextBytes(_)
TextBytes(text) ==
  IF text = <<>> THEN <<>> ELSE UTF8(Head(text)) \o TextBytes(Tail(text))

\* The merges of the vocabulary, lowest rank first. The frequent "EUR" is a token;
\* the rare "INR" is not, and is encoded as the two tokens E2 82 | B9. Merges are
\* made on bytes, not characters: "EUR" followed by the bytes E2 82 that start the
\* next character is a token too, one that ends inside that character.
Merges ==
  << << <<"20">>, <<"61">> >>,
     << <<"61">>, <<"61">> >>,
     << <<"E2">>, <<"82">> >>,
     << <<"E2", "82">>, <<"AC">> >>,
     << <<"EF">>, <<"BF">> >>,
     << <<"EF", "BF">>, <<"BD">> >>,
     << <<"E2", "82", "AC">>, <<"E2", "82">> >>,
     << <<"0A">>, <<"0A">> >> >>

\* The ranks of the adjacent pairs of `parts` that are merges.
PairRanks(parts) ==
  {r \in 1..Len(Merges) :
     \E i \in 1..(Len(parts) - 1) : <<parts[i], parts[i + 1]>> = Merges[r]}

RECURSIVE BytePairMerge(_)
\* Merge the leftmost pair of lowest rank until no adjacent pair is a merge.
BytePairMerge(parts) ==
  LET ranks == PairRanks(parts)
  IN  IF ranks = {} THEN parts
      ELSE LET r == CHOOSE x \in ranks : \A y \in ranks : x <= y
               i == CHOOSE j \in 1..(Len(parts) - 1) :
                      /\ <<parts[j], parts[j + 1]>> = Merges[r]
                      /\ \A k \in 1..(j - 1) : <<parts[k], parts[k + 1]>> # Merges[r]
           IN  BytePairMerge(SubSeq(parts, 1, i - 1)
                               \o <<parts[i] \o parts[i + 1]>>
                               \o SubSeq(parts, i + 2, Len(parts)))

\* encoding.encode(text): the token sequence of the text.
Encode(text) ==
  LET bytes == TextBytes(text)
  IN  BytePairMerge([i \in 1..Len(bytes) |-> <<bytes[i]>>])

RECURSIVE TokenBytes(_)
TokenBytes(tokens) ==
  IF tokens = <<>> THEN <<>> ELSE Head(tokens) \o TokenBytes(Tail(tokens))

RECURSIVE UTF8Decode(_)
\* bytes.decode("utf-8", errors="replace"): an ill-formed or truncated sequence
\* becomes one U+FFFD per maximal subpart.
UTF8Decode(bs) ==
  IF bs = <<>> THEN <<>>
  ELSE LET b == bs[1]
           n == Len(bs)
           rest(k) == UTF8Decode(SubSeq(bs, k + 1, n))
       IN  CASE b = "61" -> <<"a">> \o rest(1)
             [] b = "62" -> <<"b">> \o rest(1)
             [] b = "20" -> <<" ">> \o rest(1)
             [] b = "0A" -> <<"\n">> \o rest(1)
             [] b = "E2" ->
                  IF n >= 2 /\ bs[2] = "82"
                    THEN IF n >= 3 /\ bs[3] = "AC" THEN <<"EUR">> \o rest(3)
                         ELSE IF n >= 3 /\ bs[3] = "B9" THEN <<"INR">> \o rest(3)
                         ELSE <<"FFFD">> \o rest(2)
                    ELSE <<"FFFD">> \o rest(1)
             [] b = "EF" ->
                  IF n >= 2 /\ bs[2] = "BF"
                    THEN IF n >= 3 /\ bs[3] = "BD" THEN <<"FFFD">> \o rest(3)
                         ELSE <<"FFFD">> \o rest(2)
                    ELSE <<"FFFD">> \o rest(1)
             [] OTHER -> <<"FFFD">> \o rest(1)

\* encoding.decode(tokens)
Decode(tokens) == UTF8Decode(TokenBytes(tokens))

count_tokens(text) == Len(Encode(text))

\* A plausible slip: the slice keeps the end of the text (tokens[-max_tokens:]).
truncate_keeps_tail(text, max_tokens) ==
  LET tokens == Encode(text)
  IN  IF Len(tokens) <= max_tokens THEN text
      ELSE Decode(SubSeq(tokens, Len(tokens) - max_tokens + 1, Len(tokens)))

truncate_to_token_limit(text, max_tokens) ==
  LET tokens == Encode(text)
  IN  IF Len(tokens) <= max_tokens THEN text
      ELSE Decode(PySlice(tokens, 0, max_tokens))

(* ------------------------------------------------------ chunker harness *)
ChunkTexts == SeqsUpTo(Letters \cup Whitespace, MaxTextLen)

\* Window arguments: omitted, small values, and values around the default overlap.
ChunkSizeArgs ==
  {None} \cup {Some(w) : w \in (0..MaxChunkArg) \cup {CHUNK_OVERLAP, CHUNK_OVERLAP + 1}}
OverlapArgs == {None} \cup {Some(o) : o \in 0..(MaxChunkArg + 1)}

NoCall == [op |-> "none"]
NoRet == [status |-> "none"]
IdleReq == [pc |-> "idle"]

\* No direct call made, empty stores, no request in flight.
InitCall ==
  /\ pc = "idle"
  /\ args = NoCall
  /\ ret = NoRet
  /\ prev = NoRet
InitSys ==
  /\ mongo_docs = {}
  /\ mongo_sessions = {}
  /\ qdrant_points = {}
  /\ embed_calls = 0
  /\ reqs = [r \in 1..MaxReqs |-> IdleReq]
  /\ next_uuid = 1

InitChunk ==
  /\ settings = Settings(CHUNK_SIZE, CHUNK_OVERLAP)
  /\ InitCall
  /\ InitSys

ChunkTextCall(text, cs, ov) ==
  /\ pc' = "chunk_done"
  /\ args' = [op |-> "chunk_text", text |-> text, chunk_size |-> cs, overlap |-> ov]
  /\ ret' = chunk_text(text, cs, ov)
  /\ UNCHANGED <<settings, prev, sys_vars>>

NextChunk ==
  /\ pc = "idle"
  /\ \E text \in ChunkTexts, cs \in ChunkSizeArgs, ov \in OverlapArgs :
       ChunkTextCall(text, cs, ov)

SpecChunk == InitChunk /\ [][NextChunk]_vars

(* ------------------------------------------------------- chunker claims *)
\* The call under study: chunk_text has returned (or raised) for a caller-supplied
\* window W > 0 and a caller-supplied overlap.
ChunkCalled == pc = "chunk_done" /\ args.chunk_size # None /\ args.overlap # None
ArgW == args.chunk_size[1]
ArgO == args.overlap[1]
ArgWords == Split(args.text)
ValidWindow == ChunkCalled /\ ArgW > 0 /\ 0 <= ArgO /\ ArgO < ArgW

\* The words of each returned chunk.
RetWords == [i \in 1..Len(ret.value) |-> Split(ret.value[i])]

\* The windows of the contract: chunk i (0-based) holds the words at indices
\* [i*(W-O), i*(W-O)+W), for every i with i*(W-O) < n.
Windows(words, W, O) ==
  [k \in 1..CeilDiv(Len(words), W - O) |->
     Join(<<" ">>, SubSeq(words, (k - 1) * (W - O) + 1,
                          Min(Len(words), (k - 1) * (W - O) + W)))]

\* C1: for every text, W > 0 and 0 <= O < W (O = 0 included), chunk_text returns
\* exactly the windows of words [i*(W-O), i*(W-O)+W), in order.
C1_WindowsAsSpecified ==
  ValidWindow => ret = Ok(Windows(ArgWords, ArgW, ArgO))

\* C2: the number of chunks is ceil(max(n - O, 0) / (W - O)), or 1 when the text is
\* non-empty and has fewer than W words.
C2_ChunkCount ==
  ValidWindow =>
    /\ ret.status = "ok"
    /\ Len(ret.value) =
         IF Len(ArgWords) > 0 /\ Len(ArgWords) < ArgW THEN 1
         ELSE CeilDiv(Max(Len(ArgWords) - ArgO, 0), ArgW - ArgO)

\* C3: a non-empty text with fewer than W words gives exactly one chunk holding all
\* its words; a text with no words gives the empty sequence, without error.
C3_ShortTextOneChunk ==
  ValidWindow =>
    /\ ret.status = "ok"
    /\ Len(ArgWords) = 0 => ret.value = <<>>
    /\ (Len(ArgWords) > 0 /\ Len(ArgWords) < ArgW) =>
         (Len(ret.value) = 1 /\ RetWords[1] = ArgWords)

\* C4: every chunk has at most W words, and the last O words of each chunk are the
\* first O words of the next one.
C4_OverlapExactlyO ==
  (ValidWindow /\ ret.status = "ok") =>
    /\ \A i \in 1..Len(ret.value) : Len(RetWords[i]) <= ArgW
    /\ \A i \in 1..(Len(ret.value) - 1) :
         /\ Len(RetWords[i]) >= ArgO
         /\ Len(RetWords[i + 1]) >= ArgO
         /\ SubSeq(RetWords[i], Len(RetWords[i]) - ArgO + 1, Len(RetWords[i]))
              = SubSeq(RetWords[i + 1], 1, ArgO)

\* C5: every chunk is non-empty and every word position of the text lies in at
\* least one chunk.
C5_ChunksCoverText ==
  ValidWindow =>
    /\ ret.status = "ok"
    /\ \A i \in 1..Len(ret.value) : ret.value[i] # <<>>
    /\ \A p \in 1..Len(ArgWords) :
         \E i \in 1..Len(ret.value), lo \in 1..p, hi \in p..Len(ArgWords) :
           RetWords[i] = SubSeq(ArgWords, lo, hi)

\* C6: for an overlap O >= W the call is rejected with an error, or the result is
\* that of an overlap clamped below W; no result is computed from a step <= 0.
C6_OverlapRejectedOrClamped ==
  (ChunkCalled /\ ArgW > 0 /\ ArgO >= ArgW) =>
    \/ ret.status = "ValueError"
    \/ \E o \in 0..(ArgW - 1) : ret = Ok(Windows(ArgWords, ArgW, o))

(* ---------------------------------------------------- truncation harness *)
TruncTexts == SeqsUpTo(TokChars, MaxTokTextLen)
TokenBudgets == (-1)..MaxTokens

InitTrunc ==
  /\ settings = Settings(CHUNK_SIZE, CHUNK_OVERLAP)
  /\ InitCall
  /\ InitSys

\* truncate_to_token_limit(text, n) on a fresh text.
TruncateCall(text, n) ==
  /\ pc = "idle"
  /\ pc' = "trunc_done"
  /\ args' = [op |-> "truncate_to_token_limit", text |-> text, max_tokens |-> n,
              original |-> text]
  /\ ret' = Ok(truncate_to_token_limit(text, n))
  /\ UNCHANGED <<settings, prev, sys_vars>>

\* truncate_to_token_limit applied again, to the previous result with the same budget.
RetruncateCall ==
  /\ pc = "trunc_done"
  /\ pc' = "retrunc_done"
  /\ args' = [args EXCEPT !.text = ret.value]
  /\ prev' = ret
  /\ ret' = Ok(truncate_to_token_limit(ret.value, args.max_tokens))
  /\ UNCHANGED <<settings, sys_vars>>

NextTrunc ==
  \/ /\ pc = "idle"
     /\ \E text \in TruncTexts, n \in TokenBudgets : TruncateCall(text, n)
  \/ RetruncateCall

SpecTrunc == InitTrunc /\ [][NextTrunc]_vars

(* ---------------------------------------------------- truncation claims *)
Truncated == pc \in {"trunc_done", "retrunc_done"}

C10_TruncationIsTokenPrefix ==
  (pc = "trunc_done" /\ args.max_tokens >= 0) =>
    IF Len(Encode(args.text)) <= args.max_tokens
      THEN ret.value = args.text
      ELSE ret.value = Decode(SubSeq(Encode(args.text), 1, args.max_tokens))

\* C10 witness: a text over budget, cut to a non-empty token prefix.
C10_Witness ==
  /\ pc = "trunc_done"
  /\ args.max_tokens >= 1
  /\ Len(Encode(args.text)) > args.max_tokens
  /\ ret.value # <<>>
  /\ ret.value # args.text

(* ------------------------------------------- RetrievalService.add_document *)
EmptyDict == [k \in {} |-> ""]

\* `metadata or {}`
PyOrDict(m) == IF m # None /\ m[1] # EmptyDict THEN m[1] ELSE EmptyDict

\* The documents and metadata submitted.
DocContents ==
  { <<>>, <<"a">>, <<"a", " ", "b">>, <<"a", " ", "b", " ", "a">> }
DocMetadata == { None, Some([filename |-> "f.txt"]) }

\* EmbeddingService: one vector per input text.
Embedding(text) == [embedding_of |-> text]
get_embeddings(texts) == [i \in 1..Len(texts) |-> Embedding(texts[i])]

\* The payloads add_document builds, one per chunk.
Payloads(doc_id, chunks, metadata) ==
  [i \in 1..Len(chunks) |->
     [doc_id |-> doc_id, chunk_index |-> i - 1, content |-> chunks[i],
      metadata |-> PyOrDict(metadata)]]

\* QdrantDatabase.add_vectors: one fresh id per vector, zipped with the vectors
\* and the payloads.
Points(first_id, vectors, payloads) ==
  { [id |-> first_id + i - 1, vector |-> vectors[i], payload |-> payloads[i]] :
      i \in 1..Min(Len(vectors), Len(payloads)) }

SetReq(r, rec) == reqs' = [reqs EXCEPT ![r] = rec]

\* A caller invokes add_document(content, metadata).
AddDocumentCall(r, content, metadata) ==
  /\ reqs[r].pc = "idle"
  /\ SetReq(r, [pc |-> "mongo", content |-> content, metadata |-> metadata])
  /\ UNCHANGED <<settings, call_vars, mongo_sessions, mongo_docs, qdrant_points, embed_calls, next_uuid>>

\* doc_id = self.mongo_db.add_document(content, metadata)
MongoAddDocument(r) ==
  /\ reqs[r].pc = "mongo"
  /\ mongo_docs' = mongo_docs \cup
       { [id |-> next_uuid, content |-> reqs[r].content,
          metadata |-> PyOrDict(reqs[r].metadata)] }
  /\ next_uuid' = next_uuid + 1
  /\ SetReq(r, [reqs[r] EXCEPT !.pc = "chunk"] @@ [doc_id |-> next_uuid])
  /\ UNCHANGED <<settings, call_vars, mongo_sessions, qdrant_points, embed_calls>>

\* The one insert_one call made raises, and the exception leaves add_document.
MongoAddDocumentFails(r) ==
  /\ reqs[r].pc = "mongo"
  /\ SetReq(r, [reqs[r] EXCEPT !.pc = "raised"]
                 @@ [error |-> "StoreUnavailable", attempts |-> 1])
  /\ UNCHANGED <<settings, call_vars, mongo_sessions, mongo_docs, qdrant_points, embed_calls, next_uuid>>

\* chunks = self.text_processor.chunk_text(content)
ChunkContent(r) ==
  /\ reqs[r].pc = "chunk"
  /\ LET res == chunk_text(reqs[r].content, None, None)
     IN  IF res.status = "ok"
           THEN SetReq(r, [reqs[r] EXCEPT !.pc = "embed"] @@ [chunks |-> res.value])
           ELSE SetReq(r, [reqs[r] EXCEPT !.pc = "raised"] @@ [error |-> res.status])
  /\ UNCHANGED <<settings, call_vars, mongo_sessions, mongo_docs, qdrant_points, embed_calls, next_uuid>>

\* embeddings = self.embedding_service.get_embeddings(chunks)
GetEmbeddings(r) ==
  /\ reqs[r].pc = "embed"
  /\ embed_calls' = embed_calls + 1
  /\ SetReq(r, [reqs[r] EXCEPT !.pc = "upsert"]
                 @@ [embeddings |-> get_embeddings(reqs[r].chunks)])
  /\ UNCHANGED <<settings, call_vars, mongo_sessions, mongo_docs, qdrant_points, next_uuid>>

\* The embedder answers with malformed output: a list of m vectors for a batch
\* of another length, the vectors of the first chunks followed by stray ones.
GetEmbeddingsMalformed(r) ==
  /\ reqs[r].pc = "embed"
  /\ embed_calls' = embed_calls + 1
  /\ \E m \in 0..(Len(reqs[r].chunks) + 1) :
       /\ m # Len(reqs[r].chunks)
       /\ SetReq(r, [reqs[r] EXCEPT !.pc = "upsert"]
                      @@ [embeddings |->
                            [i \in 1..m |->
                               Embedding(IF i <= Len(reqs[r].chunks)
                                           THEN reqs[r].chunks[i] ELSE <<>>)]])
  /\ UNCHANGED <<settings, call_vars, mongo_sessions, mongo_docs, qdrant_points, next_uuid>>

\* The one call made raises, and the exception leaves add_document.
GetEmbeddingsFails(r) ==
  /\ reqs[r].pc = "embed"
  /\ embed_calls' = embed_calls + 1
  /\ SetReq(r, [reqs[r] EXCEPT !.pc = "raised"]
                 @@ [error |-> "EmbeddingFailure", attempts |-> 1])
  /\ UNCHANGED <<settings, call_vars, mongo_sessions, mongo_docs, qdrant_points, next_uuid>>

\* self.qdrant_db.add_vectors(embeddings, payloads); return doc_id
AddVectors(r) ==
  /\ reqs[r].pc = "upsert"
  /\ LET payloads == Payloads(reqs[r].doc_id, reqs[r].chunks, reqs[r].metadata)
     IN  /\ qdrant_points' =
              qdrant_points \cup Points(next_uuid, reqs[r].embeddings, payloads)
         /\ next_uuid' = next_uuid + Len(reqs[r].embeddings)
  /\ SetReq(r, [reqs[r] EXCEPT !.pc = "returned"] @@ [result |-> reqs[r].doc_id])
  /\ UNCHANGED <<settings, call_vars, mongo_sessions, mongo_docs, embed_calls>>

\* The one upsert call made raises, and the exception leaves add_document.
AddVectorsFails(r) ==
  /\ reqs[r].pc = "upsert"
  /\ SetReq(r, [reqs[r] EXCEPT !.pc = "raised"]
                 @@ [error |-> "StoreUnavailable", attempts |-> 1])
  /\ UNCHANGED <<settings, call_vars, mongo_sessions, mongo_docs, qdrant_points, embed_calls, next_uuid>>

Init ==
  /\ settings \in SettingsChoices
  /\ InitCall
  /\ InitSys

\* One step of an add_document request.
AddDocumentStep(r) ==
  \/ \E content \in DocContents, metadata \in DocMetadata :
       AddDocumentCall(r, content, metadata)
  \/ MongoAddDocument(r)
  \/ MongoAddDocumentFails(r)
  \/ ChunkContent(r)
  \/ GetEmbeddings(r)
  \/ GetEmbeddingsMalformed(r)
  \/ GetEmbeddingsFails(r)
  \/ AddVectors(r)
  \/ AddVectorsFails(r)

Next == \E r \in 1..MaxReqs : AddDocumentStep(r)

Spec == Init /\ [][Next]_vars

(* ----------------------------------------------------- add_document claims *)
\* C7: when the configured chunk overlap is >= the configured chunk size,
\* add_document fails before any I/O: nothing is written to the Document Store or
\* the Vector Index, the embedder is not called, and no call returns a document id.
C7_BadConfigRejectedBeforeIO ==
  settings.CHUNK_OVERLAP >= settings.CHUNK_SIZE =>
    /\ mongo_docs = {}
    /\ qdrant_points = {}
    /\ embed_calls = 0
    /\ \A r \in 1..MaxReqs : reqs[r].pc # "returned"

\* The records the Vector Index holds for a document id.
RecordsOf(doc_id) == {p \in qdrant_points : p.payload.doc_id = doc_id}
Failed(r) == reqs[r].pc = "raised"
Persisted(r) == "doc_id" \in DOMAIN reqs[r]

\* C14: ingest is all-or-nothing: once add_document has failed, at whichever step,
\* neither the Document Store nor the Vector Index holds anything of its document.
C14_IngestAllOrNothing ==
  \A r \in 1..MaxReqs :
    (Failed(r) /\ Persisted(r)) =>
      /\ \A d \in mongo_docs : d.id # reqs[r].doc_id
      /\ RecordsOf(reqs[r].doc_id) = {}

\* C15: a failed embedding request fails add_document with no record of the
\* document in the Vector Index; a failed Document Store write leaves the index
\* untouched (every record in the index belongs to a stored document); and a
\* document is never indexed with only a subset of its chunks.
C15_NoPartialIndexing ==
  /\ \A r \in 1..MaxReqs :
       (Failed(r) /\ Persisted(r) /\ reqs[r].error = "EmbeddingFailure") =>
         RecordsOf(reqs[r].doc_id) = {}
  /\ \A p \in qdrant_points : \E d \in mongo_docs : d.id = p.payload.doc_id
  /\ \A r \in 1..MaxReqs :
       ("chunks" \in DOMAIN reqs[r] /\ RecordsOf(reqs[r].doc_id) # {}) =>
         {p.payload.chunk_index : p \in RecordsOf(reqs[r].doc_id)}
           = 0..(Len(reqs[r].chunks) - 1)

\* C16: after a successful add_document of a document with n chunks the index
\* holds exactly n records of it, whatever number of vectors the embedder
\* returned: record i has the returned document id, chunk_index i, the text of
\* chunk i and the document's metadata, under an id of its own that is not the
\* document id.
C16_OneRecordPerChunk ==
  \A r \in 1..MaxReqs :
    reqs[r].pc = "returned" =>
      LET recs == RecordsOf(reqs[r].result)
          n == Len(reqs[r].chunks)
      IN  /\ Cardinality(recs) = n
          /\ \A i \in 0..(n - 1) :
               \E p \in recs :
                 /\ p.payload = [doc_id |-> reqs[r].result, chunk_index |-> i,
                                 content |-> reqs[r].chunks[i + 1],
                                 metadata |-> PyOrDict(reqs[r].metadata)]
                 /\ p.id # reqs[r].result
                 /\ \A q \in qdrant_points : q.id = p.id => q = p

\* C20: a failure of a Document Store, embedding or Vector Index call reaches the
\* caller of add_document or retrieve_relevant_context only after the call was
\* attempted 3 times.
C20_FailureOnlyAfterRetries ==
  \A r \in 1..MaxReqs :
    (Failed(r) /\ reqs[r].error \in {"StoreUnavailable", "EmbeddingFailure"}) =>
      reqs[r].attempts >= 3

(* ------------------------------------- RetrievalService.get_context_string *)
MaxResults == 3

\* One retrieval result, as QdrantDatabase.search returns it.
Result(id, score, payload) == [id |-> id, score |-> score, payload |-> payload]

\* The payload MongoToQdrantMigrator.migrate writes for a source document that
\* has a title and no content: the document's own fields, and mongo_id.
MigratedPayload == [title |-> <<"a">>, mongo_id |-> 1]

IsPrefix(s, t) == Len(s) <= Len(t) /\ SubSeq(t, 1, Len(s)) = s

\* A plausible slip: every chunk is cut to the budget on its own, then joined.
get_context_string_per_chunk(results) ==
  IF \E i \in 1..Len(results) : "content" \notin DOMAIN results[i].payload
    THEN Raise("KeyError")
    ELSE Ok(Join(<<"\n", "\n">>,
                 [i \in 1..Len(results) |->
                    truncate_to_token_limit(results[i].payload.content,
                                            settings.MAX_CONTEXT_LENGTH)]))

get_context_string(results) ==
  IF \E i \in 1..Len(results) : "content" \notin DOMAIN results[i].payload
    THEN Raise("KeyError")   \* result["payload"]["content"]
    ELSE LET context_parts == [i \in 1..Len(results) |-> results[i].payload.content]
             context == Join(<<"\n", "\n">>, context_parts)
         IN  Ok(truncate_to_token_limit(context, settings.MAX_CONTEXT_LENGTH))

(* ------------------------------------------------------ context harness *)
\* The token budgets a deployment may configure, the default among them.
ContextBudgets == TokenBudgets \cup {MAX_CONTEXT_LENGTH}

\* Payloads as add_document writes them, and one as migrate writes it.
ContextContents == { <<"a", " ", "a">>, <<"EUR">>, <<"INR">> }
ContextPayloads ==
  { [doc_id |-> 1, chunk_index |-> 0, content |-> c, metadata |-> [k \in {} |-> ""]] :
      c \in ContextContents } \cup {MigratedPayload}

\* Result sequences in ranked order: descending scores.
ResultSeqs ==
  { [i \in 1..Len(ps) |-> Result(i, 100 - 10 * i, ps[i])] :
      ps \in SeqsUpTo(ContextPayloads, MaxResults) }

InitContext ==
  /\ \E n \in ContextBudgets :
       settings = [Settings(CHUNK_SIZE, CHUNK_OVERLAP) EXCEPT !.MAX_CONTEXT_LENGTH = n]
  /\ InitCall
  /\ InitSys

GetContextStringCall(results) ==
  /\ pc' = "context_done"
  /\ args' = [op |-> "get_context_string", results |-> results]
  /\ ret' = get_context_string(results)
  /\ UNCHANGED <<settings, prev, sys_vars>>

NextContext ==
  /\ pc = "idle"
  /\ \/ \E results \in ResultSeqs : GetContextStringCall(results)
     \/ \E text \in TruncTexts, n \in TokenBudgets : TruncateCall(text, n)

SpecContext == InitContext /\ [][NextContext]_vars

(* ------------------------------------------------------- context claims *)
ContextCalled == pc = "context_done"
ContextParts == [i \in 1..Len(args.results) |-> args.results[i].payload.content]
ContextJoined == Join(<<"\n", "\n">>, ContextParts)

\* C11: a negative token budget is rejected: truncate_to_token_limit called with
\* max_tokens < 0, and get_context_string under a negative MAX_CONTEXT_LENGTH,
\* never return a text.
C11_NegativeBudgetRejected ==
  /\ (pc = "trunc_done" /\ args.max_tokens < 0) => ret.status # "ok"
  /\ (ContextCalled /\ settings.MAX_CONTEXT_LENGTH < 0) => ret.status # "ok"

\* C12: for every result sequence, the empty one included, get_context_string
\* returns, without raising, the chunk texts joined in the order received with a
\* paragraph break between them, truncated to the configured budget (the joined
\* text itself when it fits, else the decoding of its first MAX_CONTEXT_LENGTH
\* tokens); for the empty sequence it returns the empty text.
C12_ContextIsJoinedAndTruncated ==
  (ContextCalled /\ settings.MAX_CONTEXT_LENGTH >= 0) =>
    /\ ret.status = "ok"
    /\ ret.value =
         IF count_tokens(ContextJoined) <= settings.MAX_CONTEXT_LENGTH
           THEN ContextJoined
           ELSE Decode(SubSeq(Encode(ContextJoined), 1, settings.MAX_CONTEXT_LENGTH))
    /\ args.results = <<>> => ret.value = <<>>

\* Offsets of chunk j in the joined text: it occupies (ChunkStart, ChunkEnd].
ChunkStart(j) ==
  IF j = 1 THEN 0 ELSE Len(Join(<<"\n", "\n">>, SubSeq(ContextParts, 1, j - 1))) + 2
ChunkEnd(j) == ChunkStart(j) + Len(ContextParts[j])

\* The characters of the joined text that the returned text keeps: all of it, or
\* all but a final replacement character left by a cut inside a character.
KeptText ==
  IF IsPrefix(ret.value, ContextJoined) THEN ret.value
  ELSE SubSeq(ret.value, 1, Len(ret.value) - 1)

\* C13: the returned context keeps the ranking: it is a prefix of the joined
\* text (with at most one replacement character where the cut fell), so whenever
\* some part of chunk j is present, every chunk ranked before j is present in full
\* and in order, and only the last included chunk can be cut.
C13_TruncationKeepsRanking ==
  (ContextCalled /\ ret.status = "ok") =>
    /\ IsPrefix(KeptText, ContextJoined)
    /\ KeptText # ret.value => ret.value[Len(ret.value)] = "FFFD"
    /\ \A j \in 1..Len(ContextParts) :
         ChunkStart(j) < Len(KeptText) =>
           \A i \in 1..(j - 1) : ChunkEnd(i) <= Len(KeptText)

\* C13 witness: of three ranked chunks the first is kept in full, the second is
\* cut and the third is dropped.
C13_Witness ==
  /\ ContextCalled
  /\ ret.status = "ok"
  /\ Len(args.results) = 3
  /\ ChunkEnd(1) <= Len(KeptText)
  /\ ChunkStart(2) < Len(KeptText)
  /\ Len(KeptText) < ChunkEnd(2)

(* ------------------------------- RetrievalService.retrieve_relevant_context *)
\* Similarity scores are in hundredths: the threshold 0.7 is 70.
DEFAULT_SCORE_THRESHOLD == 70

\* Cosine similarity of two embeddings: 1.0 for the same text, at the threshold
\* for texts with a word in common, below it otherwise.
Score(q, v) ==
  IF q = v THEN 100
  ELSE IF \E i \in 1..Len(Split(q.embedding_of)), j \in 1..Len(Split(v.embedding_of)) :
            Split(q.embedding_of)[i] = Split(v.embedding_of)[j]
         THEN 70
         ELSE 40

RECURSIVE Ranked(_, _)
\* The points in descending order of score (equal scores by id).
Ranked(points, query) ==
  IF points = {} THEN <<>>
  ELSE LET best == CHOOSE p \in points :
                     \A q \in points :
                       \/ Score(query, p.vector) > Score(query, q.vector)
                       \/ Score(query, p.vector) = Score(query, q.vector) /\ p.id <= q.id
       IN  <<[id |-> best.id, score |-> Score(query, best.vector),
              payload |-> best.payload]>> \o Ranked(points \ {best}, query)

\* The Vector Index answering a query_points request: the points scoring at least
\* the threshold, best first, at most `limit` of them; a limit below 1 is refused.
query_points(points, request) ==
  IF request.limit < 1 THEN Raise("UnexpectedResponse")
  ELSE LET hits == Ranked({p \in points :
                             Score(request.query, p.vector) >= request.score_threshold},
                          request.query)
       IN  Ok(SubSeq(hits, 1, Min(request.limit, Len(hits))))

\* A plausible slip: the threshold is left out of the request.
SearchRequest_without_threshold(query_vector, limit, score_threshold) ==
  [query |-> query_vector, limit |-> limit, score_threshold |-> 0]

\* The request QdrantDatabase.search sends; score_threshold defaults to 0.7.
SearchRequest(query_vector, limit, score_threshold) ==
  [query |-> query_vector, limit |-> limit,
   score_threshold |-> IF score_threshold = None THEN DEFAULT_SCORE_THRESHOLD
                       ELSE score_threshold[1]]

\* QdrantDatabase.search: the hits as {id, score, payload} results.
search(query_vector, limit, score_threshold) ==
  LET res == query_points(qdrant_points,
                          SearchRequest(query_vector, limit, score_threshold))
  IN  IF res.status # "ok" THEN res
      ELSE Ok([i \in 1..Len(res.value) |->
                 Result(res.value[i].id, res.value[i].score, res.value[i].payload)])

Queries == { <<"a", " ", "b">>, <<"b">> }
TopKArgs == {None} \cup {Some(k) : k \in (-1)..2}

\* A caller invokes retrieve_relevant_context(query, top_k);
\* top_k = top_k or settings.TOP_K_RESULTS
RetrieveCall(r, query, top_k_arg) ==
  /\ reqs[r].pc = "idle"
  /\ SetReq(r, [pc |-> "query_embed", query |-> query, top_k_arg |-> top_k_arg,
                top_k |-> PyOr(top_k_arg, settings.TOP_K_RESULTS)])
  /\ UNCHANGED <<settings, call_vars, mongo_sessions, mongo_docs, qdrant_points, embed_calls, next_uuid>>

\* query_embedding = self.embedding_service.get_embedding(query)
GetEmbedding(r) ==
  /\ reqs[r].pc = "query_embed"
  /\ embed_calls' = embed_calls + 1
  /\ SetReq(r, [reqs[r] EXCEPT !.pc = "search"]
                 @@ [query_embedding |-> Embedding(reqs[r].query)])
  /\ UNCHANGED <<settings, call_vars, mongo_sessions, mongo_docs, qdrant_points, next_uuid>>

\* The one call made raises, and the exception leaves retrieve_relevant_context.
GetEmbeddingFails(r) ==
  /\ reqs[r].pc = "query_embed"
  /\ embed_calls' = embed_calls + 1
  /\ SetReq(r, [reqs[r] EXCEPT !.pc = "raised"]
                 @@ [error |-> "EmbeddingFailure", attempts |-> 1])
  /\ UNCHANGED <<settings, call_vars, mongo_sessions, mongo_docs, qdrant_points, next_uuid>>

\* results = self.qdrant_db.search(query_vector=query_embedding, limit=top_k);
\* return results
Search(r) ==
  /\ reqs[r].pc = "search"
  /\ LET request == SearchRequest(reqs[r].query_embedding, reqs[r].top_k, None)
         res == search(reqs[r].query_embedding, reqs[r].top_k, None)
     IN  IF res.status = "ok"
           THEN SetReq(r, [reqs[r] EXCEPT !.pc = "returned"]
                            @@ [request |-> request, results |-> res.value])
           ELSE SetReq(r, [reqs[r] EXCEPT !.pc = "raised"]
                            @@ [request |-> request, error |-> res.status])
  /\ UNCHANGED <<settings, call_vars, mongo_sessions, mongo_docs, qdrant_points, embed_calls, next_uuid>>

\* The one query_points call made raises, and the exception leaves
\* retrieve_relevant_context.
SearchFails(r) ==
  /\ reqs[r].pc = "search"
  /\ SetReq(r, [reqs[r] EXCEPT !.pc = "raised"]
                 @@ [error |-> "StoreUnavailable", attempts |-> 1])
  /\ UNCHANGED <<settings, call_vars, mongo_sessions, mongo_docs, qdrant_points, embed_calls, next_uuid>>

\* One step of a retrieve_relevant_context request.
RetrieveStep(r) ==
  \/ \E query \in Queries, top_k_arg \in TopKArgs : RetrieveCall(r, query, top_k_arg)
  \/ GetEmbedding(r)
  \/ GetEmbeddingFails(r)
  \/ Search(r)
  \/ SearchFails(r)

\* Under the defaults every document here is one chunk; a smaller window makes
\* documents of several chunks.
InitRetrieve ==
  /\ settings \in {Settings(CHUNK_SIZE, CHUNK_OVERLAP), Settings(2, 1)}
  /\ InitCall
  /\ InitSys

\* One request ingests a document while another queries the index.
NextRetrieve == AddDocumentStep(1) \/ RetrieveStep(2)

SpecRetrieve == InitRetrieve /\ [][NextRetrieve]_vars

(* ----------------------------------------------------- retrieval claims *)
Retrieval(r) == "query" \in DOMAIN reqs[r]
Searched(r) == Retrieval(r) /\ "request" \in DOMAIN reqs[r]

\* C17: whenever the caller supplies a top_k, the Vector Index is queried with
\* limit equal to it; TOP_K_RESULTS is the limit only when the caller supplies none.
C17_CallerTopKIsLimit ==
  \A r \in 1..MaxReqs :
    Searched(r) =>
      reqs[r].request.limit =
        IF reqs[r].top_k_arg # None THEN reqs[r].top_k_arg[1]
        ELSE settings.TOP_K_RESULTS

\* C18: a call with top_k <= 0 is rejected as a configuration error before the
\* embedder or the Vector Index is called: it never obtains a query embedding,
\* never sends a query to the index, and never fails in either call.
C18_NonPositiveTopKRejected ==
  \A r \in 1..MaxReqs :
    (Retrieval(r) /\ reqs[r].top_k_arg # None /\ reqs[r].top_k_arg[1] <= 0) =>
      /\ "query_embedding" \notin DOMAIN reqs[r]
      /\ "request" \notin DOMAIN reqs[r]
      /\ reqs[r].pc = "raised" => reqs[r].error = "ConfigurationError"

C22_WholeDocumentsOnly ==
  \A r \in 1..MaxReqs :
    Persisted(r) =>
      LET recs == RecordsOf(reqs[r].doc_id)
      IN  \/ recs = {}
          \/ /\ "chunks" \in DOMAIN reqs[r]
             /\ {p.payload.chunk_index : p \in recs} = 0..(Len(reqs[r].chunks) - 1)
             /\ \A p \in recs :
                  p.payload.content = reqs[r].chunks[p.payload.chunk_index + 1]

(* ------------------------------------------------------------- deletion *)
\* MongoDatabase.delete_document(doc_id)
DeleteDocument(doc_id) ==
  /\ \E d \in mongo_docs : d.id = doc_id
  /\ mongo_docs' = {d \in mongo_docs : d.id # doc_id}
  /\ UNCHANGED <<settings, call_vars, mongo_sessions, qdrant_points, embed_calls, reqs,
                 next_uuid>>

\* QdrantDatabase.delete_by_id(point_id)
DeleteById(point_id) ==
  /\ \E p \in qdrant_points : p.id = point_id
  /\ qdrant_points' = {p \in qdrant_points : p.id # point_id}
  /\ UNCHANGED <<settings, call_vars, mongo_sessions, mongo_docs, embed_calls, reqs,
                 next_uuid>>

\* Ingest and queries as before, with documents and points being deleted.
NextDelete ==
  \/ AddDocumentStep(1)
  \/ RetrieveStep(2)
  \/ \E d \in mongo_docs : DeleteDocument(d.id)
  \/ \E p \in qdrant_points : DeleteById(p.id)

SpecDelete == InitRetrieve /\ [][NextDelete]_vars

\* C21: once a document has been deleted from the Document Store, the Vector
\* Index holds no record whose payload doc_id is that document (so a query cannot
\* return its chunks).
C21_DeleteCascades ==
  \A r \in 1..MaxReqs :
    (Persisted(r) /\ \A d \in mongo_docs : d.id # reqs[r].doc_id) =>
      RecordsOf(reqs[r].doc_id) = {}

(* ------------------------------- MongoToQdrantMigrator.create_embedding *)
MaxRetryCount == 4
DEFAULT_RETRY_COUNT == 3

RetryCountArgs == {None} \cup {Some(n) : n \in (-1)..MaxRetryCount}

\* create_embedding(text, retry_count) is called: the for loop over
\* range(retry_count) starts, or, the range being empty, the function ends
\* without a return statement and the caller gets None.
CreateEmbeddingCall(text, retry_count_arg) ==
  LET retry_count == IF retry_count_arg = None THEN DEFAULT_RETRY_COUNT
                     ELSE retry_count_arg[1]
  IN  /\ pc = "idle"
      /\ args' = [op |-> "create_embedding", text |-> text, retry_count |-> retry_count,
                  attempt |-> 0, attempts |-> 0, waits |-> <<>>]
      /\ IF retry_count > 0
           THEN pc' = "embedding_attempt" /\ ret' = ret
           ELSE pc' = "embedding_done" /\ ret' = Ok(None)
      /\ UNCHANGED <<settings, prev, sys_vars>>

\* self.openai_client.embeddings.create(...) answers: return its embedding.
EmbeddingsCreate ==
  /\ pc = "embedding_attempt"
  /\ args' = [args EXCEPT !.attempts = @ + 1]
  /\ ret' = Ok(Embedding(args.text))
  /\ pc' = "embedding_done"
  /\ UNCHANGED <<settings, prev, sys_vars>>

\* The request raises: sleep 2 ** attempt and go round the loop again, or, on the
\* last attempt, raise.
EmbeddingsCreateFails ==
  /\ pc = "embedding_attempt"
  /\ IF args.attempt < args.retry_count - 1
       THEN /\ args' = [args EXCEPT !.attempts = @ + 1, !.attempt = @ + 1,
                                    !.waits = Append(@, 2 ^ args.attempt)]
            /\ UNCHANGED <<pc, ret>>
       ELSE /\ args' = [args EXCEPT !.attempts = @ + 1]
            /\ ret' = Raise("Exception")
            /\ pc' = "embedding_done"
  /\ UNCHANGED <<settings, prev, sys_vars>>

NextEmbed ==
  \/ \E text \in DocContents, retry_count_arg \in RetryCountArgs :
       CreateEmbeddingCall(text, retry_count_arg)
  \/ EmbeddingsCreate
  \/ EmbeddingsCreateFails

SpecEmbed == InitTrunc /\ [][NextEmbed]_vars

\* C23: for every retry_count, create_embedding makes at most retry_count
\* attempts, sleeps 1, 2, 4, ... seconds after each failed attempt but the last,
\* returns the embedding of the first attempt that succeeds, raises once
\* retry_count attempts have failed, and never returns without an embedding.
C23_BoundedRetriesThenRaise ==
  pc = "embedding_done" =>
    /\ args.attempts <= args.retry_count
    /\ ret.status = "ok" =>
         /\ ret.value = Embedding(args.text)
         /\ args.waits = [i \in 1..(args.attempts - 1) |-> 2 ^ (i - 1)]
    /\ ret.status # "ok" =>
         /\ args.attempts = args.retry_count
         /\ args.waits = [i \in 1..(args.retry_count - 1) |-> 2 ^ (i - 1)]

(* ------------------------------------------------------ ChatService.chat *)
MaxExchanges == 6
DEFAULT_HISTORY_LIMIT == 10
HISTORY_WINDOW == 5
SOURCE_PREVIEW_CHARS == 200

\* The stored session with the given id, as a set of at most one document
\* (session_id has a unique index).
SessionsWith(session_id) == {x \in mongo_sessions : x.session_id = session_id}

\* MongoDatabase.get_session_history(session_id, limit)
get_session_history(session_id, limit) ==
  IF SessionsWith(session_id) = {} THEN <<>>
  ELSE LET session == CHOOSE x \in SessionsWith(session_id) : TRUE
       IN  PySlice(session.messages, 0 - limit, Len(session.messages))

Message(role, content) == [role |-> role, content |-> content]

\* MongoDatabase.add_message: update_one pushes the message onto the session
\* that matches; when none matches, nothing is written.
add_message(sessions, session_id, role, content) ==
  { IF x.session_id = session_id
      THEN [x EXCEPT !.messages = Append(@, Message(role, content))]
      ELSE x : x \in sessions }

\* The answer of the language model to a conversation ending with `query`.
Answer(query) == <<"r", "e", ":">> \o query

\* The messages chat sends: the system prompt with the context, the last five
\* messages of the history read, the current query.
ChatMessages(context, history, query) ==
  <<Message("system", <<"c", "t", "x", ":">> \o context)>>
    \o PySlice(history, 0 - HISTORY_WINDOW, Len(history))
    \o <<Message("user", query)>>

\* The sources list of the result.
Sources(retrieval_results) ==
  [i \in 1..Len(retrieval_results) |->
     LET r == retrieval_results[i]
     IN  [content |-> IF Len(r.payload.content) > SOURCE_PREVIEW_CHARS
                        THEN PySlice(r.payload.content, 0, SOURCE_PREVIEW_CHARS)
                               \o <<".", ".", ".">>
                        ELSE r.payload.content,
          score |-> r.score,
          metadata |-> IF "metadata" \in DOMAIN r.payload THEN r.payload.metadata
                       ELSE EmptyDict]]

ChatQueries == { <<"a">>, <<"b">> }
ChatTopKArgs == { None, Some(1) }
\* Session ids a caller may send: none, the id of a stored session, or an id
\* (0 here) under which no session was ever created.
SessionIdArgs == {None} \cup {Some(x.session_id) : x \in mongo_sessions} \cup {Some(0)}

\* chat(query, session_id, top_k) is called: without a session id a new session
\* is created under a fresh uuid.
ChatCall(r, query, session_id_arg, top_k_arg) ==
  /\ reqs[r].pc = "idle"
  /\ IF session_id_arg = None
       THEN /\ mongo_sessions' =
                 mongo_sessions \cup {[session_id |-> next_uuid, messages |-> <<>>]}
            /\ next_uuid' = next_uuid + 1
            /\ SetReq(r, [pc |-> "chat_retrieve", chat |-> query, top_k_arg |-> top_k_arg,
                          session_id_arg |-> session_id_arg, session_id |-> next_uuid])
       ELSE /\ UNCHANGED <<mongo_sessions, next_uuid>>
            /\ SetReq(r, [pc |-> "chat_retrieve", chat |-> query, top_k_arg |-> top_k_arg,
                          session_id_arg |-> session_id_arg,
                          session_id |-> session_id_arg[1]])
  /\ UNCHANGED <<settings, call_vars, mongo_docs, qdrant_points, embed_calls>>

\* retrieval_results = retrieve_relevant_context(query, top_k);
\* context = get_context_string(retrieval_results)
ChatRetrieve(r) ==
  /\ reqs[r].pc = "chat_retrieve"
  /\ embed_calls' = embed_calls + 1
  /\ LET found == search(Embedding(reqs[r].chat),
                         PyOr(reqs[r].top_k_arg, settings.TOP_K_RESULTS), None)
         context == IF found.status = "ok" THEN get_context_string(found.value)
                    ELSE found
     IN  IF context.status = "ok"
           THEN SetReq(r, [reqs[r] EXCEPT !.pc = "chat_history"]
                            @@ [retrieval_results |-> found.value,
                                context |-> context.value])
           ELSE SetReq(r, [reqs[r] EXCEPT !.pc = "raised"] @@ [error |-> context.status])
  /\ UNCHANGED <<settings, call_vars, mongo_sessions, mongo_docs, qdrant_points, next_uuid>>

\* The embedder or the index is unavailable: the exception leaves chat.
ChatRetrieveFails(r) ==
  /\ reqs[r].pc = "chat_retrieve"
  /\ embed_calls' = embed_calls + 1
  /\ SetReq(r, [reqs[r] EXCEPT !.pc = "raised"] @@ [error |-> "StoreUnavailable"])
  /\ UNCHANGED <<settings, call_vars, mongo_sessions, mongo_docs, qdrant_points, next_uuid>>

\* history = self.mongo_db.get_session_history(session_id); messages = [...]
ChatGetHistory(r) ==
  /\ reqs[r].pc = "chat_history"
  /\ LET history == get_session_history(reqs[r].session_id, DEFAULT_HISTORY_LIMIT)
     IN  SetReq(r, [reqs[r] EXCEPT !.pc = "chat_completion"]
                     @@ [session |-> SessionsWith(reqs[r].session_id),
                         history |-> history,
                         messages |-> ChatMessages(reqs[r].context, history,
                                                   reqs[r].chat)])
  /\ UNCHANGED <<settings, call_vars, mongo_sessions, mongo_docs, qdrant_points,
                 embed_calls, next_uuid>>

\* response = self.client.chat.completions.create(...); answer = ...
ChatCompletion(r) ==
  /\ reqs[r].pc = "chat_completion"
  /\ SetReq(r, [reqs[r] EXCEPT !.pc = "save_user"] @@ [answer |-> Answer(reqs[r].chat)])
  /\ UNCHANGED <<settings, call_vars, mongo_sessions, mongo_docs, qdrant_points,
                 embed_calls, next_uuid>>

\* The request to the language model raises: the exception leaves chat.
ChatCompletionFails(r) ==
  /\ reqs[r].pc = "chat_completion"
  /\ SetReq(r, [reqs[r] EXCEPT !.pc = "raised"] @@ [error |-> "LLMFailure"])
  /\ UNCHANGED <<settings, call_vars, mongo_sessions, mongo_docs, qdrant_points,
                 embed_calls, next_uuid>>

\* self.mongo_db.add_message(session_id, "user", query)
SaveUserMessage(r) ==
  /\ reqs[r].pc = "save_user"
  /\ mongo_sessions' = add_message(mongo_sessions, reqs[r].session_id, "user", reqs[r].chat)
  /\ SetReq(r, [reqs[r] EXCEPT !.pc = "save_assistant"])
  /\ UNCHANGED <<settings, call_vars, mongo_docs, qdrant_points, embed_calls, next_uuid>>

\* self.mongo_db.add_message(session_id, "assistant", answer); return result
SaveAssistantMessage(r) ==
  /\ reqs[r].pc = "save_assistant"
  /\ mongo_sessions' =
       add_message(mongo_sessions, reqs[r].session_id, "assistant", reqs[r].answer)
  /\ SetReq(r, [reqs[r] EXCEPT !.pc = "returned"]
                 @@ [result |-> [answer |-> reqs[r].answer,
                                 sources |-> Sources(reqs[r].retrieval_results),
                                 session_id |-> reqs[r].session_id]])
  /\ UNCHANGED <<settings, call_vars, mongo_docs, qdrant_points, embed_calls, next_uuid>>

\* One step of a chat request.
ChatStep(r) ==
  \/ \E query \in ChatQueries, session_id_arg \in SessionIdArgs,
        top_k_arg \in ChatTopKArgs : ChatCall(r, query, session_id_arg, top_k_arg)
  \/ ChatRetrieve(r)
  \/ ChatRetrieveFails(r)
  \/ ChatGetHistory(r)
  \/ ChatCompletion(r)
  \/ ChatCompletionFails(r)
  \/ SaveUserMessage(r)
  \/ SaveAssistantMessage(r)

\* The history k earlier chats of one session have stored: exchange i is a
\* query of i letters and its answer.
RECURSIVE StoredExchanges(_)
StoredExchanges(k) ==
  IF k = 0 THEN <<>>
  ELSE StoredExchanges(k - 1)
         \o <<Message("user", [j \in 1..k |-> "a"]),
              Message("assistant", Answer([j \in 1..k |-> "a"]))>>

\* No session yet, or one session (uuid 1) holding up to MaxExchanges exchanges.
InitChat ==
  /\ settings = Settings(CHUNK_SIZE, CHUNK_OVERLAP)
  /\ InitCall
  /\ mongo_docs = {}
  /\ qdrant_points = {}
  /\ embed_calls = 0
  /\ reqs = [r \in 1..MaxReqs |-> IdleReq]
  /\ \E k \in 0..MaxExchanges :
       IF k = 0 THEN mongo_sessions = {} /\ next_uuid = 1
       ELSE /\ mongo_sessions = {[session_id |-> 1, messages |-> StoredExchanges(k)]}
            /\ next_uuid = 2

NextChat == \E r \in 1..MaxReqs : ChatStep(r)

SpecChat == InitChat /\ [][NextChat]_vars

IsChat(r) == "chat" \in DOMAIN reqs[r]

\* The messages the session held when chat read its history.
SessionMessagesRead(r) ==
  IF reqs[r].session = {} THEN <<>>
  ELSE (CHOOSE x \in reqs[r].session : TRUE).messages

\* C24: the messages chat sends to the language model are the system prompt,
\* then the last 5 exchanges (10 messages) of the session's stored history in
\* their stored order, then the current query.
C24_LastFiveExchangesSent ==
  \A r \in 1..MaxReqs :
    (IsChat(r) /\ "messages" \in DOMAIN reqs[r]) =>
      LET stored == SessionMessagesRead(r)
          sent == reqs[r].messages
      IN  /\ Len(sent) >= 2
          /\ sent[1].role = "system"
          /\ SubSeq(sent, 2, Len(sent) - 1)
               = PySlice(stored, 0 - (2 * HISTORY_WINDOW), Len(stored))
          /\ sent[Len(sent)] = Message("user", reqs[r].chat)

\* No other chat request works on the session of request r.
AloneOnSession(r) ==
  \A o \in (1..MaxReqs) \ {r} :
    IsChat(o) => reqs[o].session_id # reqs[r].session_id

\* C29: once chat has returned, the stored history of the session whose id it
\* returned ends with the user's query followed by the assistant's answer,
\* whatever session id the caller supplied (no other chat using the session).
C29_ExchangeStored ==
  \A r \in 1..MaxReqs :
    (IsChat(r) /\ reqs[r].pc = "returned" /\ AloneOnSession(r)) =>
      LET history == get_session_history(reqs[r].result.session_id, 2)
      IN  history = <<Message("user", reqs[r].chat),
                      Message("assistant", reqs[r].result.answer)>>

\* The number of messages request r has pushed so far.
Pushed(r) ==
  IF ~IsChat(r) THEN 0
  ELSE IF reqs[r].pc = "returned" THEN 2
  ELSE IF reqs[r].pc = "save_assistant" THEN 1
  ELSE 0

RECURSIVE PushedOn(_, _)
PushedOn(session_id, n) ==
  IF n = 0 THEN 0
  ELSE PushedOn(session_id, n - 1)
         + (IF IsChat(n) /\ reqs[n].session_id = session_id THEN Pushed(n) ELSE 0)

\* Every user message is directly followed by the answer to it.
Alternates(messages) ==
  /\ Len(messages) % 2 = 0
  /\ \A i \in 1..Len(messages) :
       IF i % 2 = 1
         THEN /\ messages[i].role = "user"
              /\ messages[i + 1] = Message("assistant", Answer(messages[i].content))
         ELSE messages[i].role = "assistant"

\* C30: whenever no chat stands between its two writes, the messages of every
\* session strictly alternate user, assistant, each user message followed by
\* the answer to it, also when several chats use the session concurrently;
\* and a session created in this run holds exactly the messages pushed by the
\* chats that got an answer, so a chat whose language-model request failed
\* appended none.
C30_ConcurrentChatsAlternate ==
  (\A r \in 1..MaxReqs : reqs[r].pc # "save_assistant") =>
    \A x \in mongo_sessions :
      /\ Alternates(x.messages)
      /\ (\E r \in 1..MaxReqs : IsChat(r) /\ reqs[r].session_id_arg = None
                                 /\ reqs[r].session_id = x.session_id)
           => Len(x.messages) = PushedOn(x.session_id, MaxReqs)

(* -------------------------------------------------- routes.upload_document *)
\* str.endswith
EndsWith(s, suffix) ==
  /\ Len(s) >= Len(suffix)
  /\ SubSeq(s, Len(s) - Len(suffix) + 1, Len(s)) = suffix

\* filename.split('.')[-1]
RECURSIVE LastSegment(_)
LastSegment(s) ==
  IF s = <<>> THEN <<>>
  ELSE IF s[Len(s)] = "." THEN <<>>
  ELSE Append(LastSegment(SubSeq(s, 1, Len(s) - 1)), s[Len(s)])

Docx == <<".", "d", "o", "c", "x">>
Pdf == <<".", "p", "d", "f">>
Txt == <<".", "t", "x", "t">>

Supported(filename) ==
  EndsWith(filename, Docx) \/ EndsWith(filename, Pdf) \/ EndsWith(filename, Txt)

\* The text extracted from a file of one paragraph or page holding `text`.
ExtractedText(filename, text) ==
  IF EndsWith(filename, Docx) THEN text
  ELSE IF EndsWith(filename, Pdf) THEN text \o <<"\n">>
  ELSE text

HTTPException(status_code, detail) == [status_code |-> status_code, detail |-> detail]

\* `except Exception as e: raise HTTPException(status_code=500, detail=str(e))`
\* around the whole body of the handler.
Respond(raised) == HTTPException(500, raised.message)

UploadFilenames ==
  { <<"f">> \o Docx, <<"f">> \o Pdf, <<"f">> \o Txt,
    <<"f", ".", "e", "x", "e">>, <<"f">> }
UploadTexts == { <<"a">>, <<"a", " ", "b">> }
\* The metadata form field: absent, a JSON object, or text that is not JSON.
UploadMetadata ==
  { None, Some([json |-> TRUE, value |-> [source |-> "x"]]), Some([json |-> FALSE]) }

\* POST /documents/upload up to the call of add_document.
UploadDocumentCall(r, filename, text, metadata) ==
  /\ reqs[r].pc = "idle"
  /\ IF ~Supported(filename)
       THEN SetReq(r, [pc |-> "responded", upload |-> filename,
                       response |-> Respond([exception |-> "HTTPException",
                                             message |-> "400: Unsupported file type"])])
       ELSE IF metadata # None /\ ~metadata[1].json
         THEN SetReq(r, [pc |-> "responded", upload |-> filename,
                         response |-> Respond([exception |-> "JSONDecodeError", message |-> "JSONDecodeError"])])
         ELSE LET meta == [filename |-> filename, file_type |-> LastSegment(filename)]
                            @@ (IF metadata = None THEN EmptyDict ELSE metadata[1].value)
              IN  SetReq(r, [pc |-> "mongo", upload |-> filename,
                             content |-> ExtractedText(filename, text),
                             metadata |-> Some(meta)])
  /\ UNCHANGED <<settings, call_vars, mongo_sessions, mongo_docs, qdrant_points, embed_calls, next_uuid>>

\* The file cannot be read as its extension says: the parser raises.
UploadExtractFails(r, filename) ==
  /\ reqs[r].pc = "idle"
  /\ Supported(filename)
  /\ SetReq(r, [pc |-> "responded", upload |-> filename,
                response |-> Respond([exception |-> "ExtractionError", message |-> "ExtractionError"])])
  /\ UNCHANGED <<settings, call_vars, mongo_sessions, mongo_docs, qdrant_points, embed_calls, next_uuid>>

\* add_document returned or raised: the handler answers.
UploadRespond(r) ==
  /\ reqs[r].pc \in {"returned", "raised"}
  /\ "upload" \in DOMAIN reqs[r]
  /\ IF reqs[r].pc = "returned"
       THEN SetReq(r, [reqs[r] EXCEPT !.pc = "responded"]
                        @@ [response |-> [status_code |-> 200,
                                          doc_id |-> reqs[r].result,
                                          filename |-> reqs[r].upload]])
       ELSE SetReq(r, [reqs[r] EXCEPT !.pc = "responded"]
                        @@ [response |-> Respond([exception |-> reqs[r].error, message |-> reqs[r].error])])
  /\ UNCHANGED <<settings, call_vars, mongo_sessions, mongo_docs, qdrant_points, embed_calls, next_uuid>>

\* One step of an upload request.
UploadStep(r) ==
  \/ \E filename \in UploadFilenames, text \in UploadTexts, metadata \in UploadMetadata :
       UploadDocumentCall(r, filename, text, metadata)
  \/ \E filename \in UploadFilenames : UploadExtractFails(r, filename)
  \/ MongoAddDocument(r)
  \/ MongoAddDocumentFails(r)
  \/ ChunkContent(r)
  \/ GetEmbeddings(r)
  \/ GetEmbeddingsMalformed(r)
  \/ GetEmbeddingsFails(r)
  \/ AddVectors(r)
  \/ AddVectorsFails(r)
  \/ UploadRespond(r)

NextUpload == \E r \in 1..MaxReqs : UploadStep(r)

SpecUpload == InitRetrieve /\ [][NextUpload]_vars

\* C25: an upload whose filename has none of the supported extensions is
\* answered with status 400, and nothing of it is written to either store.
C25_UnsupportedTypeRejected ==
  \A r \in 1..MaxReqs :
    ("upload" \in DOMAIN reqs[r] /\ ~Supported(reqs[r].upload)) =>
      /\ reqs[r].pc = "responded"
      /\ reqs[r].response.status_code = 400
      /\ \A d \in mongo_docs : d.metadata.filename # reqs[r].upload
      /\ \A p \in qdrant_points : p.payload.metadata.filename # reqs[r].upload

(* ------------------------------------- chunk_text with the overlap omitted *)
OverlapOmitted == pc = "chunk_done" /\ args.chunk_size # None /\ args.overlap = None

\* C26: for every supplied window size W > 0 with the overlap omitted,
\* chunk_text steps with an overlap below W (the result is the windows of some
\* overlap o < W) and the chunks cover every word of the text.
C26_DefaultOverlapBelowWindow ==
  (OverlapOmitted /\ ArgW > 0) =>
    /\ ret.status = "ok"
    /\ \E o \in 0..(ArgW - 1) : ret = Ok(Windows(ArgWords, ArgW, o))
    /\ \A p \in 1..Len(ArgWords) :
         \E i \in 1..Len(ret.value), lo \in 1..p, hi \in p..Len(ArgWords) :
           RetWords[i] = SubSeq(ArgWords, lo, hi)

(* -------------------------------------------- MongoToQdrantMigrator.migrate *)
MaxMigrateDocs == 2
DEFAULT_BATCH_SIZE == 100
MIGRATE_MAX_CHARS == 8000

\* text.strip() is empty
IsBlank(text) == \A i \in 1..Len(text) : text[i] \in Whitespace \cup {"\n"}

\* prepare_text_for_embedding(doc, ['title', 'content'])
RECURSIVE TextParts(_, _)
TextParts(doc, text_fields) ==
  IF text_fields = <<>> THEN <<>>
  ELSE (IF Head(text_fields) \in DOMAIN doc /\ doc[Head(text_fields)] # <<>>
          THEN <<doc[Head(text_fields)]>> ELSE <<>>)
         \o TextParts(doc, Tail(text_fields))

prepare_text_for_embedding(doc) == Join(<<" ">>, TextParts(doc, <<"title", "content">>))

\* generate_id: the id derived from the md5 of the Mongo _id. It is a function
\* of the _id alone; the ids it gives (negative here) are apart from the fresh
\* uuid4 ids of add_vectors.
generate_id(mongo_id) == 0 - mongo_id

\* The payload migrate builds: every field of the document but _id, and mongo_id.
MigratePayload(doc) ==
  [k \in (DOMAIN doc \ {"_id"}) \cup {"mongo_id"} |->
     IF k = "mongo_id" THEN doc._id ELSE doc[k]]

MigratePoint(doc, text) ==
  [id |-> generate_id(doc._id), vector |-> Embedding(text), payload |-> MigratePayload(doc)]

\* qdrant_client.upsert: a point replaces the stored point of the same id.
Upsert(points, batch) ==
  {p \in points : \A i \in 1..Len(batch) : batch[i].id # p.id}
    \cup {batch[i] : i \in 1..Len(batch)}

\* The documents a source collection may hold: with content, with a title
\* only, with both, and with nothing but blank text.
SourceDoc(id, kind) ==
  IF kind = "content" THEN [_id |-> id, content |-> <<"a">>]
  ELSE IF kind = "title" THEN [_id |-> id, title |-> <<"a">>]
  ELSE IF kind = "both" THEN [_id |-> id, title |-> <<"a">>, content |-> <<"b">>]
  ELSE [_id |-> id, title |-> <<>>, content |-> <<" ">>]
SourceKinds == {"content", "title", "both", "blank"}
SourceCollections ==
  UNION { { [i \in 1..n |-> SourceDoc(i, kinds[i])] : kinds \in [1..n -> SourceKinds] } :
          n \in 0..MaxMigrateDocs }
BatchSizes == {1, 2, DEFAULT_BATCH_SIZE}

MigrateResult == Ok([total |-> Len(args.docs), successful |-> args.successful,
                     failed |-> args.failed])

\* migrate(...) is called: the documents are counted and the cursor opened.
MigrateCall(docs, batch_size) ==
  /\ pc = "idle"
  /\ args' = [op |-> "migrate", docs |-> docs, batch_size |-> batch_size, i |-> 1,
              successful |-> 0, failed |-> 0, points_batch |-> <<>>, uploaded |-> <<>>]
  /\ IF Len(docs) = 0
       THEN /\ pc' = "migrate_done"
            /\ ret' = Ok([total |-> 0, successful |-> 0, failed |-> 0])
       ELSE /\ pc' = "migrate_doc"
            /\ ret' = NoRet
  /\ UNCHANGED <<settings, prev, sys_vars>>

\* The next document of the cursor has blank text: it is skipped as failed.
MigrateSkipsBlank ==
  /\ pc = "migrate_doc"
  /\ args.i <= Len(args.docs)
  /\ IsBlank(prepare_text_for_embedding(args.docs[args.i]))
  /\ args' = [args EXCEPT !.failed = @ + 1, !.i = @ + 1]
  /\ UNCHANGED <<settings, pc, ret, prev, sys_vars>>

\* The next document is embedded and its point joins the batch.
MigrateDocument ==
  /\ pc = "migrate_doc"
  /\ args.i <= Len(args.docs)
  /\ LET doc == args.docs[args.i]
         text == PySlice(prepare_text_for_embedding(doc), 0, MIGRATE_MAX_CHARS)
         batch == Append(args.points_batch, MigratePoint(doc, text))
     IN  /\ ~IsBlank(prepare_text_for_embedding(doc))
         /\ IF Len(batch) >= args.batch_size
              THEN /\ args' = [args EXCEPT !.points_batch = batch]
                   /\ pc' = "migrate_upsert"
              ELSE /\ args' = [args EXCEPT !.points_batch = batch, !.i = @ + 1]
                   /\ pc' = "migrate_doc"
  /\ UNCHANGED <<settings, ret, prev, sys_vars>>

\* create_embedding raises for the next document: it is counted as failed.
MigrateEmbeddingFails ==
  /\ pc = "migrate_doc"
  /\ args.i <= Len(args.docs)
  /\ ~IsBlank(prepare_text_for_embedding(args.docs[args.i]))
  /\ args' = [args EXCEPT !.failed = @ + 1, !.i = @ + 1]
  /\ UNCHANGED <<settings, pc, ret, prev, sys_vars>>

\* The full batch is upserted.
MigrateUpsert ==
  /\ pc = "migrate_upsert"
  /\ qdrant_points' = Upsert(qdrant_points, args.points_batch)
  /\ args' = [args EXCEPT !.successful = @ + Len(args.points_batch),
                          !.uploaded = Append(@, args.points_batch),
                          !.points_batch = <<>>, !.i = @ + 1]
  /\ pc' = "migrate_doc"
  /\ UNCHANGED <<settings, ret, prev, mongo_docs, mongo_sessions, embed_calls, reqs, next_uuid>>

\* The upsert of the full batch raises: the except clause of the loop counts
\* the current document as failed, and the batch stays as it is.
MigrateUpsertFails ==
  /\ pc = "migrate_upsert"
  /\ args' = [args EXCEPT !.failed = @ + 1, !.i = @ + 1]
  /\ pc' = "migrate_doc"
  /\ UNCHANGED <<settings, ret, prev, sys_vars>>

\* The cursor is exhausted and no point is left: migrate returns.
MigrateReturns ==
  /\ pc = "migrate_doc"
  /\ args.i > Len(args.docs)
  /\ args.points_batch = <<>>
  /\ pc' = "migrate_done"
  /\ ret' = MigrateResult
  /\ UNCHANGED <<settings, args, prev, sys_vars>>

\* The remaining points are upserted, and migrate returns.
MigrateFinalUpsert ==
  /\ pc = "migrate_doc"
  /\ args.i > Len(args.docs)
  /\ args.points_batch # <<>>
  /\ qdrant_points' = Upsert(qdrant_points, args.points_batch)
  /\ args' = [args EXCEPT !.successful = @ + Len(args.points_batch),
                          !.uploaded = Append(@, args.points_batch)]
  /\ pc' = "migrate_done"
  /\ ret' = [MigrateResult EXCEPT
               !.value.successful = @ + Len(args.points_batch)]
  /\ UNCHANGED <<settings, prev, mongo_docs, mongo_sessions, embed_calls, reqs, next_uuid>>

\* The upsert of the remaining points raises: they are counted as failed.
MigrateFinalUpsertFails ==
  /\ pc = "migrate_doc"
  /\ args.i > Len(args.docs)
  /\ args.points_batch # <<>>
  /\ args' = [args EXCEPT !.failed = @ + Len(args.points_batch)]
  /\ pc' = "migrate_done"
  /\ ret' = [MigrateResult EXCEPT !.value.failed = @ + Len(args.points_batch)]
  /\ UNCHANGED <<settings, prev, sys_vars>>

MigrateStep ==
  \/ \E docs \in SourceCollections, batch_size \in BatchSizes : MigrateCall(docs, batch_size)
  \/ MigrateSkipsBlank
  \/ MigrateDocument
  \/ MigrateEmbeddingFails
  \/ MigrateUpsert
  \/ MigrateUpsertFails
  \/ MigrateReturns
  \/ MigrateFinalUpsert
  \/ MigrateFinalUpsertFails

\* The collection is empty, or add_document has already put the one chunk of
\* the document "a" into it.
InitMigrate ==
  /\ settings = Settings(CHUNK_SIZE, CHUNK_OVERLAP)
  /\ InitCall
  /\ mongo_sessions = {}
  /\ reqs = [r \in 1..MaxReqs |-> IdleReq]
  /\ \E ingested \in BOOLEAN :
       IF ingested
         THEN /\ mongo_docs = {[id |-> 1, content |-> <<"a">>, metadata |-> EmptyDict]}
              /\ qdrant_points = Points(2, get_embeddings(<< <<"a">> >>),
                                        Payloads(1, << <<"a">> >>, None))
              /\ embed_calls = 1
              /\ next_uuid = 3
         ELSE /\ mongo_docs = {}
              /\ qdrant_points = {}
              /\ embed_calls = 0
              /\ next_uuid = 1

\* The migration writes into the collection that chat retrieves from.
NextMigrate == MigrateStep \/ ChatStep(2)

SpecMigrate == InitMigrate /\ [][NextMigrate]_vars

\* C27: every record in the shared collection, whichever writer put it there,
\* has a payload with a 'content' field, and no chat fails with a KeyError on a
\* retrieval result.
C27_EveryRecordHasContent ==
  /\ \A p \in qdrant_points : "content" \in DOMAIN p.payload
  /\ \A r \in 1..MaxReqs :
       (IsChat(r) /\ reqs[r].pc = "raised") => reqs[r].error # "KeyError"

Migrated == pc = "migrate_done" /\ args.op = "migrate"

\* C28: when migrate returns, successful + failed = total; the documents counted
\* successful are exactly those whose point is in an upserted batch; and no
\* point is in more than one upserted batch.
C28_CountsAddUp ==
  Migrated =>
    /\ ret.value.successful + ret.value.failed = ret.value.total
    /\ ret.value.successful =
         Cardinality({d \in 1..Len(args.docs) :
                        \E b \in 1..Len(args.uploaded) :
                          \E i \in 1..Len(args.uploaded[b]) :
                            args.uploaded[b][i].id = generate_id(args.docs[d]._id)})
    /\ \A b1, b2 \in 1..Len(args.uploaded) :
         b1 # b2 =>
           \A i \in 1..Len(args.uploaded[b1]), j \in 1..Len(args.uploaded[b2]) :
             args.uploaded[b1][i].id # args.uploaded[b2][j].id

====
